---------------------------- MODULE Spec2Model ----------------------------
(***************************************************************************)
(* Marketing e-mail generator: the deterministic tools (brand_check,       *)
(* safety_check, reject_email_tool, deploy_email_to_sfmc_tool), the        *)
(* sequential pipeline with its pre-hook, and the root agent's approval    *)
(* step.  Text is a sequence of one-character strings, so that slicing,    *)
(* lower-casing, stripping and substring search are computed as Python     *)
(* computes them.  A dict is a function whose DOMAIN is its set of keys.   *)
(***************************************************************************)
EXTENDS Integers, Sequences, FiniteSets, TLC

VARIABLES
    bc_draft,       \* brand_check: the draft_email argument
    bc_guidelines,  \* brand_check: the creative_guidelines argument
    bc_out,         \* brand_check: the results of the calls made, in order
    sc_email,       \* safety_check: the governed_email argument
    hash_order,     \* the process's iteration order of the set spam_triggers
    sc_out,         \* safety_check: the outcomes of the calls made, in order
    file,           \* initial_state.json: <<>> when it cannot be read, else <<data>>
    pc,             \* where the root agent's run stands
    agent_idx,      \* the sub-agent of the pipeline that runs, or is next to run
    begun,          \* whether that sub-agent has begun
    call_no,        \* the model call of that sub-agent that is pending
    attempt,        \* failed attempts of the pending model call
    failure,        \* <<>>, or <<the status code of its latest failed attempt>>
    state,          \* the session state
    tool_report,    \* <<>>, or <<outcome>> of SafetyAgent's safety_check call
    packaged,       \* <<>>, or <<PackagingAgent's output>>
    gate,           \* the approval step: NONE, PENDING_REVIEW, APPROVED, REJECTED
    decision,       \* <<>>, or <<the human's decision>>
    answer,         \* <<>>, or <<the tool called for the decision, what it returned>>
    error,          \* <<>>, or <<the error that ended the run>>
    log,            \* the events of the run, in order
    deployments     \* what deploy_email_to_sfmc_tool has returned so far, in order

brand_vars == <<bc_draft, bc_guidelines, bc_out>>

safety_vars == <<sc_email, hash_order, sc_out>>

\* the variables of the two tool harnesses and the process's hash order
tool_vars == <<bc_draft, bc_guidelines, bc_out, sc_email, hash_order, sc_out>>

run_vars == <<file, pc, agent_idx, begun, call_no, attempt, failure, state,
              tool_report, packaged, gate, decision, answer, error, log, deployments>>

---------------------------------------------------------------------------
(* Bounds of the checked input spaces.                                     *)

\* longest subject line of the exhaustively enumerated subjects
MaxLen == 3
\* largest subject_length_limit of the enumerated guidelines
MaxLimit == 3
\* longest text of the exhaustively enumerated e-mails given to safety_check
MaxTextLen == 3
\* most calls of safety_check on one e-mail
MaxCalls == 2
\* most decisions the human gives in one run
MaxDecisions == 2
\* a new run starts only while fewer deployments than this were made
MaxDeployments == 2

---------------------------------------------------------------------------
(* Python text primitives.                                                 *)

Range(f) == {f[i] : i \in DOMAIN f}

Min(a, b) == IF a < b THEN a ELSE b

Max(a, b) == IF a > b THEN a ELSE b

\* dict.get(k, default)
get(d, k, default) == IF k \in DOMAIN d THEN d[k] ELSE default

AsciiUpper == <<"A", "B", "C", "D", "E", "F", "G", "H", "I", "J", "K", "L", "M",
                "N", "O", "P", "Q", "R", "S", "T", "U", "V", "W", "X", "Y", "Z">>

AsciiLower == <<"a", "b", "c", "d", "e", "f", "g", "h", "i", "j", "k", "l", "m",
                "n", "o", "p", "q", "r", "s", "t", "u", "v", "w", "x", "y", "z">>

\* GREEK CAPITAL LETTER SIGMA, GREEK SMALL LETTER SIGMA, GREEK SMALL LETTER
\* FINAL SIGMA: one character each, written by code point.
CapitalSigma == "U+03A3"

SmallSigma == "U+03C3"

FinalSigma == "U+03C2"

Cased(c) == c \in Range(AsciiUpper) \cup Range(AsciiLower)
                   \cup {CapitalSigma, SmallSigma, FinalSigma}

\* Unicode property Case_Ignorable, among the characters used here
CaseIgnorable(c) == c \in {"'", ".", ":"}

Whitespace == {" ", "\t", "\n", "\r"}

\* the nearest position before j (at or below j) that is not case-ignorable, 0 if none
RECURSIVE PrevNotIgnorable(_, _)
PrevNotIgnorable(s, j) ==
    IF j < 1 THEN 0
    ELSE IF CaseIgnorable(s[j]) THEN PrevNotIgnorable(s, j - 1) ELSE j

\* the nearest position at or after j that is not case-ignorable, 0 if none
RECURSIVE NextNotIgnorable(_, _)
NextNotIgnorable(s, j) ==
    IF j > Len(s) THEN 0
    ELSE IF CaseIgnorable(s[j]) THEN NextNotIgnorable(s, j + 1) ELSE j

\* str.lower()'s Final_Sigma context of the capital sigma at position i:
\* a cased character before it and none after it, case-ignorable ones skipped
final_sigma(s, i) ==
    LET p == PrevNotIgnorable(s, i - 1)
        n == NextNotIgnorable(s, i + 1)
    IN  /\ p # 0
        /\ Cased(s[p])
        /\ (n = 0 \/ ~Cased(s[n]))

lower_char(s, i) ==
    IF s[i] = CapitalSigma
    THEN (IF final_sigma(s, i) THEN FinalSigma ELSE SmallSigma)
    ELSE IF \E k \in 1..26 : AsciiUpper[k] = s[i]
         THEN AsciiLower[CHOOSE k \in 1..26 : AsciiUpper[k] = s[i]]
         ELSE s[i]

\* str.lower()
lower(s) == [i \in 1..Len(s) |-> lower_char(s, i)]

\* slice_to with the bound taken inclusively: s[:limit + 1]
slice_to_inclusive(s, limit) == SubSeq(s, 1, Min(limit + 1, Len(s)))

\* s[:limit], for a limit of either sign
slice_to(s, limit) ==
    IF limit >= 0 THEN SubSeq(s, 1, Min(limit, Len(s)))
    ELSE SubSeq(s, 1, Max(0, Len(s) + limit))

\* str.rstrip()
RECURSIVE rstrip(_)
rstrip(s) ==
    IF Len(s) > 0 /\ s[Len(s)] \in Whitespace
    THEN rstrip(SubSeq(s, 1, Len(s) - 1))
    ELSE s

\* contains refusing the empty needle
contains_nonempty(hay, needle) ==
    /\ needle # <<>>
    /\ \E i \in 0..(Len(hay) - Len(needle)) :
           SubSeq(hay, i + 1, i + Len(needle)) = needle

\* needle in hay
contains(hay, needle) ==
    \E i \in 0..(Len(hay) - Len(needle)) :
        SubSeq(hay, i + 1, i + Len(needle)) = needle

---------------------------------------------------------------------------
(* brand_check                                                             *)

\* {b.lower() for b in (creative_guidelines.get("banned_phrases") or [])}
banned_of(creative_guidelines) ==
    {lower(b) : b \in Range(get(creative_guidelines, "banned_phrases", <<>>))}

\* int(creative_guidelines.get("subject_length_limit", 60))
limit_of(creative_guidelines) ==
    get(creative_guidelines, "subject_length_limit", 60)

\* has_banned without s.lower(): b in s
has_banned_case_sensitive(s, banned) == \E b \in banned : contains(s, b)

\* any(b in s.lower() for b in banned)
has_banned(s, banned) == \E b \in banned : contains(lower(s), b)

\* trim_subject cutting one character early: s[:limit - 1].rstrip()
trim_subject_short(s, limit) == rstrip(slice_to(s, limit - 1))

\* trim_subject stripping before it cuts: s.rstrip()[:limit]
trim_subject_strip_first(s, limit) == slice_to(rstrip(s), limit)

\* s[:limit].rstrip()
trim_subject(s, limit) == rstrip(slice_to(s, limit))

\* the loop over subject_lines: banned subjects skipped, the others trimmed
filtered_subjects_of(subject_lines, banned, limit) ==
    LET keep(s) == ~has_banned(s, banned)
        kept == SelectSeq(subject_lines, keep)
    IN  [i \in 1..Len(kept) |-> trim_subject(kept[i], limit)]

\* with_disclaimer with a single line break
with_disclaimer_one_break(b, disclaimer) ==
    b \o <<"\n", "*">> \o disclaimer \o <<"*">>

\* b + f"\n\n*{disclaimer}*"
with_disclaimer(b, disclaimer) ==
    b \o <<"\n", "\n", "*">> \o disclaimer \o <<"*">>

\* the bodies: a copy, with the disclaimer appended when it is truthy
bodies_of(body_variants, creative_guidelines) ==
    LET disclaimer == get(creative_guidelines, "disclaimer", <<>>)
    IN  IF "disclaimer" \in DOMAIN creative_guidelines /\ disclaimer # <<>>
        THEN [i \in 1..Len(body_variants) |->
                 with_disclaimer(body_variants[i], disclaimer)]
        ELSE body_variants

brand_check(draft_email, creative_guidelines) ==
    [subject_lines |->
        filtered_subjects_of(get(draft_email, "subject_lines", <<>>),
                             banned_of(creative_guidelines),
                             limit_of(creative_guidelines)),
     body_variants |->
        bodies_of(get(draft_email, "body_variants", <<>>), creative_guidelines)]

---------------------------------------------------------------------------
(* safety_check                                                            *)
(* An e-mail is the sequence of its (key, value) items in insertion order; *)
(* a value is a str, a list of str, or a Python set, which json.dumps      *)
(* cannot serialize.                                                       *)

Str(s) == [t |-> "str", s |-> s]

List(l) == [t |-> "list", l |-> l]

PySet == [t |-> "set"]

\* json.dumps' escape of one character (ensure_ascii=True)
json_escape(c) ==
    CASE c = "\"" -> <<"\\", "\"">>
      [] c = "\\" -> <<"\\", "\\">>
      [] c = "\n" -> <<"\\", "n">>
      [] c = "\r" -> <<"\\", "r">>
      [] c = "\t" -> <<"\\", "t">>
      [] c = CapitalSigma -> <<"\\", "u", "0", "3", "a", "3">>
      [] c = SmallSigma -> <<"\\", "u", "0", "3", "c", "3">>
      [] c = FinalSigma -> <<"\\", "u", "0", "3", "c", "2">>
      [] OTHER -> <<c>>

RECURSIVE json_escape_all(_)
json_escape_all(s) ==
    IF s = <<>> THEN <<>> ELSE json_escape(Head(s)) \o json_escape_all(Tail(s))

\* a str as JSON: "..."
json_str(s) == <<"\"">> \o json_escape_all(s) \o <<"\"">>

\* the elements of a list as JSON, joined by ", "
RECURSIVE json_join(_)
json_join(parts) ==
    IF parts = <<>> THEN <<>>
    ELSE IF Len(parts) = 1 THEN parts[1]
    ELSE parts[1] \o <<",", " ">> \o json_join(Tail(parts))

json_value(v) ==
    IF v.t = "str" THEN json_str(v.s)
    ELSE <<"[">> \o json_join([i \in 1..Len(v.l) |-> json_str(v.l[i])]) \o <<"]">>

\* json.dumps raises TypeError on a value it cannot serialize
serializable(email) == \A i \in 1..Len(email) : email[i][2].t # "set"

\* json.dumps(email) of a serializable e-mail: {"k": v, "k": v}
json_dumps(email) ==
    <<"{">>
    \o json_join([i \in 1..Len(email) |->
                     json_str(email[i][1]) \o <<":", " ">> \o json_value(email[i][2])])
    \o <<"}">>

\* spam_triggers = {"free","guaranteed","urgent"}
spam_triggers ==
    {<<"f", "r", "e", "e">>,
     <<"g", "u", "a", "r", "a", "n", "t", "e", "e", "d">>,
     <<"u", "r", "g", "e", "n", "t">>}

\* the orders in which a process may iterate over the set spam_triggers
\* (str hashes are salted per process)
IterationOrders ==
    {o \in [1..Cardinality(spam_triggers) -> spam_triggers] :
        Range(o) = spam_triggers}

\* spam_hits_of stopping at the first trigger found
spam_hits_of_first_only(text, order) ==
    LET hit(w) == contains(text, w)
        hits == SelectSeq(order, hit)
    IN  IF hits = <<>> THEN <<>> ELSE <<hits[1]>>

\* [w for w in spam_triggers if w in text]
spam_hits_of(text, order) ==
    LET hit(w) == contains(text, w)
    IN  SelectSeq(order, hit)

\* One element of a pattern: a character of chars, optional or not.
One(chars) == [chars |-> chars, optional |-> FALSE]

Opt(chars) == [chars |-> chars, optional |-> TRUE]

\* the positions after the matches of pat that start at position i of text
RECURSIVE match_ends(_, _, _)
match_ends(text, i, pat) ==
    IF pat = <<>> THEN {i}
    ELSE LET e == Head(pat)
             taken == IF i <= Len(text) /\ text[i] \in e.chars
                      THEN match_ends(text, i + 1, Tail(pat))
                      ELSE {}
         IN  IF e.optional THEN taken \cup match_ends(text, i, Tail(pat))
             ELSE taken

\* The character class [\\w\\.-] of the raw pattern: a backslash, w, a dot,
\* a hyphen.
pii_class == {"\\", "w", ".", "-"}

\* The class [-.\\s] of the raw pattern: a hyphen, a dot, a backslash, s.
pii_separator == {"-", ".", "\\", "s"}

\* \\b\\d{3}[-.\\s]?\\d{3}[-.\\s]?\\d{4}\\b of the raw pattern: a backslash
\* then b, a backslash then ddd, ...
pii_phone_pattern ==
    <<One({"\\"}), One({"b"}),
      One({"\\"}), One({"d"}), One({"d"}), One({"d"}), Opt(pii_separator),
      One({"\\"}), One({"d"}), One({"d"}), One({"d"}), Opt(pii_separator),
      One({"\\"}), One({"d"}), One({"d"}), One({"d"}), One({"d"}),
      One({"\\"}), One({"b"})>>

\* [\\w\\.-]+@[\\w\\.-]+ of the raw pattern
pii_email_pattern == <<One(pii_class), One({"@"}), One(pii_class)>>

\* bool(re.search(r"[\\w\\.-]+@[\\w\\.-]+|\\b\\d{3}[-.\\s]?\\d{3}[-.\\s]?\\d{4}\\b", text))
pii_of(text) ==
    \E i \in 1..Len(text) :
        \/ match_ends(text, i, pii_email_pattern) # {}
        \/ match_ends(text, i, pii_phone_pattern) # {}

\* safe_of taking the spam hits alone
safe_of_ignoring_pii(spam_hits, pii) == Len(spam_hits) = 0

\* safe = (len(spam_hits) == 0) and (not pii)
safe_of(spam_hits, pii) == (Len(spam_hits) = 0) /\ ~pii

\* The outcome of a call: a returned report, or the exception raised.
Returned(report) == [raised |-> FALSE, report |-> report]

Raised(exception) == [raised |-> TRUE, exception |-> exception]

safety_check(governed_email, order) ==
    IF ~serializable(governed_email) THEN Raised("TypeError")
    ELSE LET text == lower(json_dumps(governed_email))
             spam_hits == spam_hits_of(text, order)
             pii == pii_of(text)
         IN  Returned([safe |-> safe_of(spam_hits, pii),
                       spam_hits |-> spam_hits,
                       pii_detected |-> pii])

---------------------------------------------------------------------------
(* The terminal tools, the retry policy, the pipeline and the root agent.  *)

\* reject_email_tool()
reject_email_tool == "Email rejected by human approval."

\* deploy_email_to_sfmc_tool(governed_email); hex8 is uuid.uuid4().hex[:8]
deploy_email_to_sfmc_tool(governed_email, hex8) ==
    [sfmc_id |-> <<"s", "f", "m", "c", "_">> \o hex8,
     status |-> "queued",
     note |-> "Mock SFMC draft created successfully."]

\* retry_config: attempts, http_status_codes
attempts == 5

\* http_status_codes with 400 added
http_status_codes_with_400 == {400, 429, 500, 503, 504}

http_status_codes == {429, 500, 503, 504}

\* the root agent's tool for a decision, swapped
tool_for_swapped(d) == IF d = "APPROVE" THEN "reject_email_tool"
                       ELSE "deploy_email_to_sfmc_tool"

\* root_agent's instruction: approve -> deploy_email_to_sfmc_tool,
\* reject -> reject_email_tool
tool_for(d) == IF d = "APPROVE" THEN "deploy_email_to_sfmc_tool"
               ELSE "reject_email_tool"

\* sub_agents with CopyAgent and BrandAgent exchanged
sub_agents_swapped == <<"BrandAgent", "CopyAgent", "SafetyAgent", "PackagingAgent">>

\* initial_email_creator_agent.sub_agents
sub_agents == <<"CopyAgent", "BrandAgent", "SafetyAgent", "PackagingAgent">>

\* the state keys an agent's instruction template names
template_keys(a) ==
    CASE a = "CopyAgent" -> {"campaign_brief", "creative_guidelines"}
      [] a = "BrandAgent" -> {"draft_email", "creative_guidelines"}
      [] a = "SafetyAgent" -> {"governed_email"}
      [] a = "PackagingAgent" -> {}

\* output_key with BrandAgent storing under CopyAgent's key
output_key_shared(a) ==
    CASE a = "CopyAgent" -> <<"draft_email">>
      [] a = "BrandAgent" -> <<"draft_email">>
      [] a = "SafetyAgent" -> <<"safety_report">>
      [] a = "PackagingAgent" -> <<>>

\* an agent's output_key, <<>> when it has none
output_key(a) ==
    CASE a = "CopyAgent" -> <<"draft_email">>
      [] a = "BrandAgent" -> <<"governed_email">>
      [] a = "SafetyAgent" -> <<"safety_report">>
      [] a = "PackagingAgent" -> <<>>

\* the model calls of an agent's turn: SafetyAgent calls safety_check_tool
\* between two model calls
model_calls(a) == IF a = "SafetyAgent" THEN 2 ELSE 1

Append1(l, e) == l \o <<e>>

\* d[k] = v
put(d, k, v) == (k :> v) @@ d

\* an exception caught and passed over: the run goes on where it stands
Abort_swallowed(name, newlog, newstate) ==
    /\ error' = <<name>>
    /\ log' = newlog
    /\ state' = newstate
    /\ UNCHANGED <<file, pc, agent_idx, begun, call_no, attempt, tool_report,
                   packaged, gate, decision, answer, deployments>>

\* an exception leaves the run
Abort(name, newlog, newstate) ==
    /\ pc' = "aborted"
    /\ error' = <<name>>
    /\ log' = newlog
    /\ state' = newstate
    /\ UNCHANGED <<file, agent_idx, begun, call_no, attempt, tool_report, packaged,
                   gate, decision, answer, deployments>>

\* The root agent's first model call: it calls AgentTool(initial_email_creator_agent).
RootCallsPipeline ==
    /\ pc = "root_call"
    /\ UNCHANGED tool_vars
    /\ pc' = "pre_hook"
    /\ attempt' = 0
    /\ failure' = <<>>
    /\ UNCHANGED <<file, agent_idx, begun, call_no, state, tool_report, packaged,
                   gate, decision, answer, error, log, deployments>>

\* the event of a write of state[key] by writer
Write(writer, key) == <<"write", writer, key>>

\* _load_precreated_brief, the before_agent_callback of the pipeline
_load_precreated_brief ==
    /\ pc = "pre_hook"
    /\ UNCHANGED tool_vars
    /\ UNCHANGED failure
    /\ LET l == Append1(log, <<"pre_hook">>)
       IN  IF file = <<>>
           THEN Abort("FileNotFoundError", l, state)
           ELSE LET data == file[1]
                IN  IF "campaign_brief" \notin DOMAIN data
                    THEN Abort("KeyError", l, state)
                    ELSE LET s1 == put(state, "campaign_brief", data["campaign_brief"])
                             l1 == Append1(l, Write("pre_hook", "campaign_brief"))
                         IN  IF "creative_guidelines" \notin DOMAIN data
                             THEN Abort("KeyError", l1, s1)
                             ELSE /\ state' = put(s1, "creative_guidelines",
                                                  data["creative_guidelines"])
                                  /\ log' = Append1(l1, Write("pre_hook",
                                                              "creative_guidelines"))
                                  /\ pc' = "agent"
                                  /\ agent_idx' = 1
                                  /\ begun' = FALSE
                                  /\ UNCHANGED <<file, call_no, attempt, tool_report,
                                                 packaged, gate, decision, answer, error,
                                                 deployments>>

\* A sub-agent begins: its instruction is built from the state keys it names.
AgentBegins ==
    /\ pc = "agent"
    /\ ~begun
    /\ UNCHANGED tool_vars
    /\ UNCHANGED failure
    /\ LET a == sub_agents[agent_idx]
           l == Append1(log, <<"begin", a>>)
       IN  IF ~(template_keys(a) \subseteq DOMAIN state)
           THEN Abort("KeyError", l, state)
           ELSE /\ begun' = TRUE
                /\ call_no' = 1
                /\ attempt' = 0
                /\ log' = l
                /\ UNCHANGED <<file, pc, agent_idx, state, tool_report, packaged, gate,
                               decision, answer, error, deployments>>

---------------------------------------------------------------------------
(* The inputs brand_check is applied to.                                   *)

BrandChars == {"F", " ", CapitalSigma}

\* every text over chars of at most n characters
TextsUpTo(chars, n) == UNION {[1..k -> chars] : k \in 0..n}

Subjects == TextsUpTo(BrandChars, MaxLen)

\* fixed neighbours of the enumerated subject: "fa", "Mo "
FollowPool == {<<"f", "a">>, <<"M", "o", " ">>}

SubjectLists ==
    {<<>>}
    \cup {<<s>> : s \in Subjects}
    \cup {<<t, s>> : t \in FollowPool, s \in Subjects}
    \cup {<<s, t>> : t \in FollowPool, s \in Subjects}
    \cup {<<t, s, u>> : t \in FollowPool, s \in Subjects, u \in FollowPool}

\* banned_phrases: absent (<<>>), or present with one of these lists
BannedChoices ==
    {<<>>,
     << <<>> >>,
     << << <<"F">> >> >>,
     << << <<FinalSigma>> >> >>,
     << << <<"f">>, <<SmallSigma>> >> >>,
     << << <<>> >> >>}

\* subject_length_limit: absent, or a positive integer
LimitChoices == {<<>>} \cup {<<n>> : n \in 1..MaxLimit}

\* disclaimer: absent, empty, "T"
DisclaimerChoices == {<<>>, << <<>> >>, << <<"T">> >>}

BodyLists == {<<>>, << <<"H", "i">> >>, << <<"H", "i">>, <<>> >>}

\* the dict holding key k when opt is <<v>>, and no key when opt is <<>>
Entry(k, opt) == IF opt = <<>> THEN <<>> ELSE (k :> opt[1])

Guidelines(banned, limit, disclaimer) ==
    Entry("banned_phrases", banned)
    @@ Entry("subject_length_limit", limit)
    @@ Entry("disclaimer", disclaimer)

\* End-to-end scenario 1
Scenario1Draft ==
    [subject_lines |->
        << <<"W", "I", "N", " ", "F", "R", "E", "E", " ", "C", "A", "S", "H", " ", "N", "O", "W">>,
           <<"M", "o", "n", "t", "h", "l", "y", " ", "U", "p", "d", "a", "t", "e">>,
           <<"R", "e", ":", " ", "i", "n", "v", "o", "i", "c", "e", " ", "1", "2", "3">> >>,
     body_variants |->
        << <<"H", "i", " ", "t", "h", "e", "r", "e">>,
           <<"T", "h", "a", "n", "k", "s">> >>]

Scenario1Guidelines ==
    [banned_phrases |-> << <<"f", "r", "e", "e">> >>,
     subject_length_limit |-> 15,
     disclaimer |-> <<"T", "e", "r", "m", "s", " ", "a", "p", "p", "l", "y">>]

\* a subject of 61 characters, one more than the default limit
LongSubject == [i \in 1..61 |-> IF i = 61 THEN "F" ELSE "a"]

InitBrandInputs ==
    \/ /\ \E sl \in SubjectLists :
              bc_draft = [subject_lines |-> sl, body_variants |-> << <<"H", "i">> >>]
       /\ \E b \in BannedChoices, n \in LimitChoices :
              bc_guidelines = Guidelines(b, n, <<>>)
    \/ /\ \E bl \in BodyLists :
              bc_draft \in {[subject_lines |-> << <<"F", " ">> >>, body_variants |-> bl],
                            [body_variants |-> bl]}
       /\ \E d \in DisclaimerChoices, n \in LimitChoices :
              bc_guidelines = Guidelines(<<>>, n, d)
    \/ /\ bc_draft = Scenario1Draft
       /\ bc_guidelines = Scenario1Guidelines
    \/ /\ bc_draft = [subject_lines |-> <<LongSubject>>, body_variants |-> <<>>]
       /\ \E b \in BannedChoices : bc_guidelines = Guidelines(b, <<>>, <<>>)

BrandIdle ==
    /\ bc_draft = <<>>
    /\ bc_guidelines = <<>>
    /\ bc_out = <<>>

\* the e-mails safety_check is applied to
SafetyChars == {"w", "a", "@", "\\", "."}

TextKey == <<"t", "e", "x", "t">>

\* Scenario 2: {"text": "Contact me at a@b.com, guaranteed reply"}
Scenario2Email ==
    << <<TextKey,
         Str(<<"C", "o", "n", "t", "a", "c", "t", " ", "m", "e", " ", "a", "t", " ",
               "a", "@", "b", ".", "c", "o", "m", ",", " ",
               "g", "u", "a", "r", "a", "n", "t", "e", "e", "d", " ",
               "r", "e", "p", "l", "y">>)>> >>

\* {"text": "Call 555-123-4567"}
PhoneEmail ==
    << <<TextKey,
         Str(<<"C", "a", "l", "l", " ", "5", "5", "5", "-", "1", "2", "3", "-",
               "4", "5", "6", "7">>)>> >>

\* {"text": "FREE offer", "Urgent": ""}
SpamEmail ==
    << <<TextKey, Str(<<"F", "R", "E", "E", " ", "o", "f", "f", "e", "r">>)>>,
       <<<<"U", "r", "g", "e", "n", "t">>, Str(<<>>)>> >>

\* {"subject_lines": ["Hi", "w@w"], "body_variants": []}
ListEmail ==
    << <<<<"s", "u", "b", "j", "e", "c", "t", "_", "l", "i", "n", "e", "s">>,
         List(<< <<"H", "i">>, <<"w", "@", "w">> >>)>>,
       <<<<"b", "o", "d", "y", "_", "v", "a", "r", "i", "a", "n", "t", "s">>,
         List(<<>>)>> >>

\* {"text": "Hi", "tags": {...}}: a value json.dumps cannot serialize
SetEmail ==
    << <<TextKey, Str(<<"H", "i">>)>>, <<<<"t", "a", "g", "s">>, PySet>> >>

SafetyEmails ==
    {<< <<TextKey, Str(s)>> >> : s \in TextsUpTo(SafetyChars, MaxTextLen)}
    \cup {Scenario2Email, PhoneEmail, SpamEmail, ListEmail, SetEmail}

SafetyIdle ==
    /\ sc_email = <<>>
    /\ hash_order = <<>>
    /\ sc_out = <<>>

\* initial_state.json: unreadable, or holding none, one or both of the keys
FileChoices ==
    {<<>>,
     << <<>> >>,
     << [campaign_brief |-> "brief"] >>,
     << [creative_guidelines |-> Scenario1Guidelines] >>,
     << [campaign_brief |-> "brief", creative_guidelines |-> Scenario1Guidelines] >>}

\* what the model may answer as CopyAgent, and as BrandAgent
DraftChoices == {SpamEmail, ListEmail}

GovernedChoices == {ListEmail, Scenario2Email, << <<TextKey, Str(<<"H", "i">>)>> >>}

\* values of uuid.uuid4().hex[:8]
HexChoices == {<<"0", "0", "0", "0", "0", "0", "0", "0">>,
               <<"a", "1", "b", "2", "c", "3", "d", "4">>}

\* the status codes a failed model call may carry
FailureCodes == http_status_codes \cup {400}

RunStart(p) ==
    /\ pc = p
    /\ agent_idx = 1
    /\ begun = FALSE
    /\ call_no = 1
    /\ attempt = 0
    /\ failure = <<>>
    /\ state = <<>>
    /\ tool_report = <<>>
    /\ packaged = <<>>
    /\ gate = "NONE"
    /\ decision = <<>>
    /\ answer = <<>>
    /\ error = <<>>
    /\ log = <<>>

RunIdle ==
    /\ file = <<>>
    /\ RunStart("idle")
    /\ deployments = <<>>

InitBrand ==
    /\ InitBrandInputs
    /\ bc_out = <<>>
    /\ SafetyIdle
    /\ RunIdle

InitSafety ==
    /\ sc_email \in SafetyEmails
    /\ hash_order \in IterationOrders
    /\ sc_out = <<>>
    /\ BrandIdle
    /\ RunIdle

Init ==
    /\ file \in FileChoices
    /\ hash_order \in IterationOrders
    /\ RunStart("root_call")
    /\ deployments = <<>>
    /\ sc_email = <<>>
    /\ sc_out = <<>>
    /\ BrandIdle

\* what an agent's last model call may answer
outputs_of(a) ==
    CASE a = "CopyAgent" -> DraftChoices
      [] a = "BrandAgent" -> GovernedChoices
      [] a = "SafetyAgent" -> {tool_report[1]}
      [] a = "PackagingAgent" ->
            {[governed_email |-> state["governed_email"],
              safety_report |-> state["safety_report"]]}

\* A model call of the running sub-agent succeeds.  SafetyAgent's first call
\* asks for safety_check, which runs; an agent's last call gives its output,
\* stored under its output_key, and the next sub-agent, or the root agent,
\* goes on.
AgentResponds ==
    /\ pc = "agent"
    /\ begun
    /\ UNCHANGED tool_vars
    /\ failure' = <<>>
    /\ LET a == sub_agents[agent_idx]
       IN  IF call_no < model_calls(a)
           THEN LET out == safety_check(state["governed_email"], hash_order)
                IN  IF out.raised
                    THEN Abort(out.exception, log, state)
                    ELSE /\ tool_report' = <<out.report>>
                         /\ call_no' = call_no + 1
                         /\ attempt' = 0
                         /\ UNCHANGED <<file, pc, agent_idx, begun, state, packaged,
                                        gate, decision, answer, error, log, deployments>>
           ELSE \E v \in outputs_of(a) :
                    /\ state' = IF output_key(a) # <<>>
                                THEN put(state, output_key(a)[1], v)
                                ELSE state
                    /\ packaged' = IF output_key(a) = <<>> THEN <<v>> ELSE packaged
                    /\ log' = IF output_key(a) # <<>>
                              THEN log \o <<Write(a, output_key(a)[1]), <<"end", a>> >>
                              ELSE Append1(log, <<"end", a>>)
                    /\ attempt' = 0
                    /\ begun' = FALSE
                    /\ IF agent_idx < Len(sub_agents)
                       THEN agent_idx' = agent_idx + 1 /\ pc' = "agent"
                       ELSE agent_idx' = agent_idx /\ pc' = "root_present"
                    /\ UNCHANGED <<file, call_no, tool_report, gate, decision,
                                   answer, error, deployments>>

\* an attempt of the pending model call, of the root agent or of a sub-agent,
\* fails: retried on a listed status code while attempts remain, raised otherwise
GenerationFails ==
    /\ \/ pc \in {"root_call", "root_present", "root_dispatch"}
       \/ pc = "agent" /\ begun
    /\ UNCHANGED tool_vars
    /\ \E code \in FailureCodes :
           /\ failure' = <<code>>
           /\ IF code \in http_status_codes /\ attempt + 1 < attempts
              THEN /\ attempt' = attempt + 1
                   /\ UNCHANGED <<file, pc, agent_idx, begun, call_no, state,
                                  tool_report, packaged, gate, decision, answer, error,
                                  log, deployments>>
              ELSE Abort("GenerationFailed", log, state)

\* The root agent shows safety_report and governed_email and asks for approval.
RootPresents ==
    /\ pc = "root_present"
    /\ UNCHANGED tool_vars
    /\ pc' = "await_human"
    /\ gate' = "PENDING_REVIEW"
    /\ attempt' = 0
    /\ failure' = <<>>
    /\ UNCHANGED <<file, agent_idx, begun, call_no, state, tool_report, packaged,
                   decision, answer, error, log, deployments>>

\* The human approves or rejects.
HumanDecides ==
    /\ pc = "await_human"
    /\ UNCHANGED tool_vars
    /\ gate = "PENDING_REVIEW"
    /\ \E d \in {"APPROVE", "REJECT"} :
           /\ decision' = <<d>>
           /\ gate' = IF d = "APPROVE" THEN "APPROVED" ELSE "REJECTED"
           /\ log' = Append1(log, <<"decision", d>>)
    /\ pc' = "root_dispatch"
    /\ UNCHANGED <<file, agent_idx, begun, call_no, attempt, failure, state,
                   tool_report, packaged, answer, error, deployments>>

\* the decisions the human has given in this run
Decisions ==
    LET isDecision(e) == e[1] = "decision"
    IN  SelectSeq(log, isDecision)

\* The human gives a further decision in the conversation, after the tool
\* for the one before has returned.  Nothing in the program records that a
\* decision was taken: the root agent, its instruction and its tools are as
\* they were, so it takes the new decision as it took the first.
HumanDecidesAgain ==
    /\ pc = "done"
    /\ UNCHANGED tool_vars
    /\ gate \in {"APPROVED", "REJECTED"}
    /\ Len(Decisions) < MaxDecisions
    /\ \E d \in {"APPROVE", "REJECT"} :
           /\ decision' = <<d>>
           /\ gate' = IF d = "APPROVE" THEN "APPROVED" ELSE "REJECTED"
           /\ log' = Append1(log, <<"decision", d>>)
    /\ pc' = "root_dispatch"
    /\ UNCHANGED <<file, agent_idx, begun, call_no, attempt, failure, state,
                   tool_report, packaged, answer, error, deployments>>

\* The root agent calls the tool its instruction names for the decision.
RootDispatches ==
    /\ pc = "root_dispatch"
    /\ UNCHANGED tool_vars
    /\ IF tool_for(decision[1]) = "deploy_email_to_sfmc_tool"
       THEN /\ \E hex8 \in HexChoices :
                   LET result == deploy_email_to_sfmc_tool(state["governed_email"], hex8)
                   IN  /\ answer' = <<[tool |-> "deploy_email_to_sfmc_tool",
                                       returned |-> result]>>
                       /\ deployments' = Append1(deployments, result)
            /\ log' = Append1(log, <<"deploy">>)
       ELSE /\ answer' = <<[tool |-> "reject_email_tool",
                            returned |-> reject_email_tool]>>
            /\ log' = Append1(log, <<"reject">>)
            /\ UNCHANGED deployments
    /\ pc' = "done"
    /\ attempt' = 0
    /\ failure' = <<>>
    /\ UNCHANGED <<file, agent_idx, begun, call_no, state, tool_report, packaged,
                   gate, decision, error>>

\* The root agent is run again, in a new session: the state is empty, the
\* file is read anew, the process and what it has deployed stay.
NewRun ==
    /\ pc \in {"done", "aborted"}
    /\ Len(deployments) < MaxDeployments
    /\ UNCHANGED tool_vars
    /\ file' \in FileChoices
    /\ pc' = "root_call"
    /\ agent_idx' = 1
    /\ begun' = FALSE
    /\ call_no' = 1
    /\ attempt' = 0
    /\ failure' = <<>>
    /\ state' = <<>>
    /\ tool_report' = <<>>
    /\ packaged' = <<>>
    /\ gate' = "NONE"
    /\ decision' = <<>>
    /\ answer' = <<>>
    /\ error' = <<>>
    /\ log' = <<>>
    /\ UNCHANGED deployments

\* one call of the tool
BrandCheck ==
    /\ bc_draft # <<>>
    /\ bc_out = <<>>
    /\ bc_out' = <<brand_check(bc_draft, bc_guidelines)>>
    /\ UNCHANGED <<bc_draft, bc_guidelines, safety_vars, run_vars>>

\* one call of the tool
SafetyCheck ==
    /\ sc_email # <<>>
    /\ Len(sc_out) < MaxCalls
    /\ sc_out' = Append(sc_out, safety_check(sc_email, hash_order))
    /\ UNCHANGED <<sc_email, hash_order, brand_vars, run_vars>>

\* The process that serves the tool ends and another starts: str hashes get
\* a new salt, and with it the set spam_triggers a new iteration order.
ProcessRestarts ==
    /\ sc_email # <<>>
    /\ Len(sc_out) < MaxCalls
    /\ hash_order' \in IterationOrders
    /\ UNCHANGED <<sc_email, sc_out, brand_vars, run_vars>>

\* a second call of the tool, on what the first returned and with the same
\* guidelines
BrandCheckAgain ==
    /\ Len(bc_out) = 1
    /\ bc_out' = Append(bc_out, brand_check(bc_out[1], bc_guidelines))
    /\ UNCHANGED <<bc_draft, bc_guidelines, safety_vars, run_vars>>

NextBrand ==
    \/ BrandCheck
    \/ BrandCheckAgain

NextSafety ==
    \/ SafetyCheck
    \/ ProcessRestarts

Next ==
    \/ RootCallsPipeline
    \/ _load_precreated_brief
    \/ AgentBegins
    \/ AgentResponds
    \/ GenerationFails
    \/ RootPresents
    \/ HumanDecides
    \/ HumanDecidesAgain
    \/ RootDispatches
    \/ NewRun

vars == <<brand_vars, safety_vars, run_vars>>

Spec == Init /\ [][Next]_vars

\* the runs in which the human gives one decision, as the root agent asks
NextOneDecision ==
    \/ RootCallsPipeline
    \/ _load_precreated_brief
    \/ AgentBegins
    \/ AgentResponds
    \/ GenerationFails
    \/ RootPresents
    \/ HumanDecides
    \/ RootDispatches
    \/ NewRun

SpecOneDecision == Init /\ [][NextOneDecision]_vars

SpecBrand == InitBrand /\ [][NextBrand]_vars

SpecSafety == InitSafety /\ [][NextSafety]_vars

---------------------------------------------------------------------------
(* Properties of the run, checked under Spec.                              *)

\* the positions of event e in the log
Positions(e) == {p \in 1..Len(log) : log[p] = e}

\* the pre-hook and stage events of the log, in order
PipelineEvents ==
    LET ofPipeline(e) == e[1] \in {"pre_hook", "begin", "end"}
    IN  SelectSeq(log, ofPipeline)

\* a complete pipeline run: the pre-hook, then each stage begun and completed
\* before the next
CompleteRun ==
    << <<"pre_hook">>,
       <<"begin", "CopyAgent">>, <<"end", "CopyAgent">>,
       <<"begin", "BrandAgent">>, <<"end", "BrandAgent">>,
       <<"begin", "SafetyAgent">>, <<"end", "SafetyAgent">>,
       <<"begin", "PackagingAgent">>, <<"end", "PackagingAgent">> >>

C2_PreHookOnceStagesInOrder ==
    /\ Len(PipelineEvents) <= Len(CompleteRun)
    /\ PipelineEvents = SubSeq(CompleteRun, 1, Len(PipelineEvents))
    /\ packaged # <<>> => PipelineEvents = CompleteRun
    /\ pc \in {"root_present", "await_human", "root_dispatch", "done"} =>
           PipelineEvents = CompleteRun

\* the pipeline has run all four stages
C2_PipelineCompleted ==
    /\ packaged # <<>>
    /\ Len(PipelineEvents) = 9
    /\ pc = "await_human"

\* C14: after an APPROVE the tool called is deploy_email_to_sfmc_tool, whose
\* result has the status "queued" and a non-empty id, and no two results of
\* deploy_email_to_sfmc_tool carry the same id.
C14_ApproveDeploysUniqueId ==
    /\ (decision = <<"APPROVE">> /\ pc = "done") =>
           /\ gate = "APPROVED"
           /\ answer # <<>>
           /\ answer[1].tool = "deploy_email_to_sfmc_tool"
           /\ answer[1].returned.status = "queued"
           /\ answer[1].returned.sfmc_id # <<>>
    /\ \A i, j \in 1..Len(deployments) :
           i # j => deployments[i].sfmc_id # deployments[j].sfmc_id

\* the gate state a decision leads to
Outcome(d) == IF d = "APPROVE" THEN "APPROVED" ELSE "REJECTED"

\* C15: a decision given after the gate has reached APPROVED or REJECTED is
\* refused with InvalidApprovalTransition and the gate stays where the first
\* decision put it, so that a run has at most one reject or deploy.
C15_FurtherDecisionRefused ==
    /\ Len(Decisions) > 1 =>
           /\ error = <<"InvalidApprovalTransition">>
           /\ gate = Outcome(Decisions[1][2])
    /\ Cardinality(Positions(<<"deploy">>) \cup Positions(<<"reject">>)) <= 1

\* the writes of state keys in this run, in order
Writes ==
    LET isWrite(e) == e[1] = "write"
    IN  SelectSeq(log, isWrite)

\* the writer that owns a state key
Owner(key) ==
    CASE key = "campaign_brief" -> "pre_hook"
      [] key = "creative_guidelines" -> "pre_hook"
      [] key = "draft_email" -> "CopyAgent"
      [] key = "governed_email" -> "BrandAgent"
      [] key = "safety_report" -> "SafetyAgent"
      [] OTHER -> "nobody"

\* C16: in a run every write of a state key is made by the key's owner, no
\* key is written twice, and the keys of the state are the keys written.
C16_SingleWriter ==
    /\ \A i \in 1..Len(Writes) : Writes[i][2] = Owner(Writes[i][3])
    /\ \A i, j \in 1..Len(Writes) : Writes[i][3] = Writes[j][3] => i = j
    /\ DOMAIN state = {Writes[i][3] : i \in 1..Len(Writes)}

\* a completed pipeline: the five keys, each written once
C16_AllKeysWritten ==
    /\ pc = "await_human"
    /\ Len(Writes) = 5
    /\ DOMAIN state = {"campaign_brief", "creative_guidelines", "draft_email",
                       "governed_email", "safety_report"}

\* no reject, deploy or decision among the events l
NoDispatchIn(l) ==
    \A p \in 1..Len(l) : l[p][1] \notin {"decision", "reject", "deploy"}

\* C17: an error raised by the pre-hook or by a stage ends the run at once,
\* with no decision taken and neither reject_email_tool nor
\* deploy_email_to_sfmc_tool called; and after any error the run does
\* nothing more: the only step left is the start of another run, with an
\* empty state.
C17_FatalErrorAbortsRun ==
    [][ /\ (error = <<>> /\ error' # <<>>) => pc' = "aborted"
        /\ (pc \in {"pre_hook", "agent"} /\ error' # <<>>) =>
               /\ answer' = <<>>
               /\ gate' = "NONE"
               /\ NoDispatchIn(log')
        /\ error # <<>> =>
               /\ pc = "aborted"
               /\ pc' = "root_call"
               /\ state' = <<>>
               /\ log' = <<>>
               /\ answer' = <<>>
               /\ deployments' = deployments ]_vars

\* SafetyAgent's model call failed for good, governed_email already written
C17_AbortedInStage ==
    /\ pc = "aborted"
    /\ error = <<"GenerationFailed">>
    /\ sub_agents[agent_idx] = "SafetyAgent"
    /\ begun
    /\ "governed_email" \in DOMAIN state
    /\ answer = <<>>

---------------------------------------------------------------------------
(* Properties of brand_check, checked under SpecBrand.                     *)

BcIn == get(bc_draft, "subject_lines", <<>>)

BcOut == bc_out[1].subject_lines

BcBodiesIn == get(bc_draft, "body_variants", <<>>)

BcBodiesOut == bc_out[1].body_variants

\* the phrases of banned_phrases, as given
PhrasesOf(g) == Range(get(g, "banned_phrases", <<>>))

\* s contains some banned phrase, letter case ignored
ContainsBannedCI(s, g) == \E b \in PhrasesOf(g) : contains(lower(s), lower(b))

\* subject_length_limit, 60 when absent
LimitOf(g) ==
    IF "subject_length_limit" \in DOMAIN g THEN g.subject_length_limit ELSE 60

FirstChars(s, n) == [i \in 1..Min(n, Len(s)) |-> s[i]]

LastNonSpace(s) ==
    LET I == {i \in 1..Len(s) : s[i] \notin Whitespace}
    IN  IF I = {} THEN 0 ELSE CHOOSE i \in I : \A j \in I : j <= i

StripTrailing(s) == [i \in 1..LastNonSpace(s) |-> s[i]]

RECURSIVE ExpectedSubjects(_, _)
ExpectedSubjects(in, g) ==
    IF in = <<>> THEN <<>>
    ELSE (IF ContainsBannedCI(Head(in), g) THEN <<>>
          ELSE <<StripTrailing(FirstChars(Head(in), LimitOf(g)))>>)
         \o ExpectedSubjects(Tail(in), g)

EndsWith(s, suffix) ==
    /\ Len(s) >= Len(suffix)
    /\ SubSeq(s, Len(s) - Len(suffix) + 1, Len(s)) = suffix

\* C5: no subject line returned by brand_check contains, letter case ignored,
\* a phrase of banned_phrases.
C5_NoBannedSubjectReturned ==
    bc_out # <<>> =>
        \A j \in 1..Len(BcOut) : ~ContainsBannedCI(BcOut[j], bc_guidelines)

\* C6 as stated: scenario 1 returns the subjects "Monthly Update" and
\* "Re: invoice 12", and every body ends with "\n\n*Terms apply*".
C6_Scenario1AsStated ==
    (bc_draft = Scenario1Draft /\ bc_guidelines = Scenario1Guidelines /\ bc_out # <<>>) =>
        /\ BcOut = << <<"M", "o", "n", "t", "h", "l", "y", " ", "U", "p", "d", "a", "t", "e">>,
                      <<"R", "e", ":", " ", "i", "n", "v", "o", "i", "c", "e", " ", "1", "2">> >>
        /\ \A i \in 1..Len(BcBodiesOut) :
               EndsWith(BcBodiesOut[i],
                        <<"\n", "\n", "*", "T", "e", "r", "m", "s", " ", "a", "p", "p", "l", "y", "*">>)

\* C6 (amended): scenario 1 returns the subjects "Monthly Update" and
\* "Re: invoice 123" (the first dropped for the banned phrase, the third, of
\* exactly 15 characters, kept whole), and two bodies that each end with
\* "\n\n*Terms apply*".
C6_Scenario1 ==
    (bc_draft = Scenario1Draft /\ bc_guidelines = Scenario1Guidelines /\ bc_out # <<>>) =>
        /\ BcOut = << <<"M", "o", "n", "t", "h", "l", "y", " ", "U", "p", "d", "a", "t", "e">>,
                      <<"R", "e", ":", " ", "i", "n", "v", "o", "i", "c", "e", " ", "1", "2", "3">> >>
        /\ Len(BcBodiesOut) = 2
        /\ \A i \in 1..Len(BcBodiesOut) :
               EndsWith(BcBodiesOut[i],
                        <<"\n", "\n", "*", "T", "e", "r", "m", "s", " ", "a", "p", "p", "l", "y", "*">>)

C6_Scenario1Ran ==
    bc_draft = Scenario1Draft /\ bc_guidelines = Scenario1Guidelines /\ bc_out # <<>>

\* C8: the returned subject_lines are the input subject_lines in their order,
\* each subject that contains a banned phrase (letter case ignored, tested on
\* the whole subject) removed, each other subject cut to its first
\* subject_length_limit characters and stripped of trailing whitespace.
C8_SubjectsFilteredAndTrimmedInOrder ==
    bc_out # <<>> => BcOut = ExpectedSubjects(BcIn, bc_guidelines)

\* a call that dropped one subject and shortened another
C8_DroppedAndTrimmed ==
    /\ bc_out # <<>>
    /\ Len(BcIn) = 3
    /\ Len(BcOut) = 2
    /\ \E i \in 1..Len(BcIn) : ContainsBannedCI(BcIn[i], bc_guidelines)
    /\ \E k \in 1..Len(BcIn), j \in 1..Len(BcOut) :
           /\ Len(BcIn[k]) > LimitOf(bc_guidelines)
           /\ BcOut[j] = StripTrailing(FirstChars(BcIn[k], LimitOf(bc_guidelines)))
           /\ Len(BcOut[j]) < LimitOf(bc_guidelines)

\* C9: with a positive subject_length_limit (60 when absent), every returned
\* subject line has at most subject_length_limit characters.
C9_SubjectsWithinLimit ==
    bc_out # <<>> =>
        \A j \in 1..Len(BcOut) : Len(BcOut[j]) <= LimitOf(bc_guidelines)

\* a subject of 61 characters cut to the default limit of 60
C9_CutToDefaultLimit ==
    /\ bc_out # <<>>
    /\ "subject_length_limit" \notin DOMAIN bc_guidelines
    /\ \E k \in 1..Len(BcIn) : Len(BcIn[k]) = 61
    /\ \E j \in 1..Len(BcOut) : Len(BcOut[j]) = 60

\* C10: the bodies keep their number and order; with a disclaimer configured
\* (a non-empty string, the code's `if disclaimer:`) each body is followed by
\* "\n\n*" disclaimer "*"; with none configured (the key absent, or an empty
\* string) each body is unchanged.
C10_Bodies ==
    bc_out # <<>> =>
        /\ Len(BcBodiesOut) = Len(BcBodiesIn)
        /\ \A i \in 1..Len(BcBodiesIn) :
               BcBodiesOut[i] =
                   IF "disclaimer" \in DOMAIN bc_guidelines
                      /\ bc_guidelines.disclaimer # <<>>
                   THEN BcBodiesIn[i] \o <<"\n", "\n">> \o <<"*">>
                            \o bc_guidelines.disclaimer \o <<"*">>
                   ELSE BcBodiesIn[i]

\* two bodies, each returned with the disclaimer appended
C10_DisclaimerAppended ==
    /\ bc_out # <<>>
    /\ "disclaimer" \in DOMAIN bc_guidelines
    /\ bc_guidelines.disclaimer # <<>>
    /\ Len(BcBodiesIn) = 2
    /\ Len(BcBodiesOut) = 2
    /\ BcBodiesOut[2] # BcBodiesIn[2]

\* banned_phrases is absent or empty, and no disclaimer is appended
NoBannedNoDisclaimer(g) ==
    /\ PhrasesOf(g) = {}
    /\ ("disclaimer" \notin DOMAIN g \/ g.disclaimer = <<>>)

\* C12: with an empty banned_phrases set and no disclaimer, brand_check
\* applied to its own result, with the same guidelines, returns that result
\* again: the second pass changes neither a subject line nor a body.
C12_Idempotent ==
    (Len(bc_out) = 2 /\ NoBannedNoDisclaimer(bc_guidelines)) =>
        /\ bc_out[2].subject_lines = bc_out[1].subject_lines
        /\ bc_out[2].body_variants = bc_out[1].body_variants

\* a second pass over a result whose first pass cut a subject and stripped it
C12_SecondPassAfterTrim ==
    /\ Len(bc_out) = 2
    /\ NoBannedNoDisclaimer(bc_guidelines)
    /\ \E k \in 1..Len(BcIn) :
           /\ Len(BcIn[k]) > LimitOf(bc_guidelines)
           /\ Len(BcOut[k]) < LimitOf(bc_guidelines)
           /\ BcOut[k] # <<>>

\* C19: when banned_phrases contains the empty string, brand_check returns no
\* subject line at all, whatever the draft's subject lines are.
C19_EmptyPhraseDropsAll ==
    (bc_out # <<>> /\ <<>> \in PhrasesOf(bc_guidelines)) => BcOut = <<>>

\* three subjects, none holding a letter of any phrase, all dropped
C19_ThreeSubjectsDropped ==
    /\ bc_out # <<>>
    /\ PhrasesOf(bc_guidelines) = {<<>>}
    /\ Len(BcIn) = 3
    /\ BcOut = <<>>

---------------------------------------------------------------------------
(* Properties of safety_check, checked under SpecSafety.                   *)

\* the outcome of the latest call
ScLast == sc_out[Len(sc_out)]

ScReturned == sc_out # <<>> /\ ~ScLast.raised

ScReport == ScLast.report

\* the lowercase serialized text of the e-mail
ScText == lower(json_dumps(sc_email))

Digits == {"0", "1", "2", "3", "4", "5", "6", "7", "8", "9"}

\* \w
WordChars == Range(AsciiUpper) \cup Range(AsciiLower) \cup Digits \cup {"_"}

\* word, dot and hyphen characters, '@', word, dot and hyphen characters
EmailShape ==
    <<One(WordChars \cup {".", "-"}), One({"@"}), One(WordChars \cup {".", "-"})>>

\* 3-3-4 digits with optional '-', '.' or whitespace between the groups
PhoneShape ==
    <<One(Digits), One(Digits), One(Digits), Opt({"-", "."} \cup Whitespace),
      One(Digits), One(Digits), One(Digits), Opt({"-", "."} \cup Whitespace),
      One(Digits), One(Digits), One(Digits), One(Digits)>>

IsWordAt(text, i) == i >= 1 /\ i <= Len(text) /\ text[i] \in WordChars

\* \b between positions i - 1 and i
WordBoundary(text, i) == IsWordAt(text, i - 1) # IsWordAt(text, i)

\* the text holds an e-mail-address-shaped or a phone-shaped substring
HasPiiShape(text) ==
    \E i \in 1..Len(text) :
        \/ match_ends(text, i, EmailShape) # {}
        \/ /\ WordBoundary(text, i)
           /\ \E e \in match_ends(text, i, PhoneShape) : WordBoundary(text, e)

\* C3: in every report safety_check returns, safe is exactly
\* (spam_hits is empty and pii_detected is false).
C3_SafeIsDerived ==
    ScReturned =>
        (ScReport.safe = (ScReport.spam_hits = <<>> /\ ~ScReport.pii_detected))

\* a report that is unsafe for its PII alone
C3_UnsafeByPiiAlone ==
    /\ ScReturned
    /\ ScReport.spam_hits = <<>>
    /\ ScReport.pii_detected
    /\ ~ScReport.safe

\* C4: pii_detected is true exactly when the lowercase serialized text holds
\* an e-mail-address-shaped or a 10-digit phone-shaped substring, and
\* scenario 2 yields spam_hits = ["guaranteed"], pii_detected = true,
\* safe = false.
C4_PiiDetectedIffShaped ==
    ScReturned =>
        /\ ScReport.pii_detected = HasPiiShape(ScText)
        /\ sc_email = Scenario2Email =>
               /\ ScReport.spam_hits = << <<"g", "u", "a", "r", "a", "n", "t", "e", "e", "d">> >>
               /\ ScReport.pii_detected
               /\ ~ScReport.safe

\* C7: safety_check never raises, and an e-mail that cannot be serialized
\* yields safe = false, spam_hits empty, pii_detected = true.
C7_NeverRaisesFailsClosed ==
    sc_out # <<>> =>
        /\ ~ScLast.raised
        /\ ~serializable(sc_email) =>
               ScLast.report =
                   [safe |-> FALSE, spam_hits |-> <<>>, pii_detected |-> TRUE]

Free == <<"f", "r", "e", "e">>

Guaranteed == <<"g", "u", "a", "r", "a", "n", "t", "e", "e", "d">>

Urgent == <<"u", "r", "g", "e", "n", "t">>

\* w occurs in text at some position
OccursIn(w, text) ==
    \E i \in 1..Len(text) :
        /\ i + Len(w) - 1 <= Len(text)
        /\ \A k \in 1..Len(w) : text[i + k - 1] = w[k]

\* C11: the words of spam_hits are exactly the words among "free",
\* "guaranteed", "urgent" that occur in the lowercase serialized text of the
\* whole e-mail, keys and values alike, and no word is listed twice.
C11_SpamHitsExact ==
    ScReturned =>
        /\ Range(ScReport.spam_hits) =
               {w \in {Free, Guaranteed, Urgent} : OccursIn(w, ScText)}
        /\ \A i, j \in 1..Len(ScReport.spam_hits) :
               ScReport.spam_hits[i] = ScReport.spam_hits[j] => i = j

\* "FREE" in a value and "Urgent" in a key, both reported, "guaranteed" not
C11_KeyAndValueHit ==
    /\ ScReturned
    /\ sc_email = SpamEmail
    /\ Range(ScReport.spam_hits) = {Free, Urgent}
    /\ Len(ScReport.spam_hits) = 2

\* C13: any two calls of safety_check on the same e-mail return the same
\* outcome, the elements of spam_hits in the same order included.
C13_SameInputSameReport ==
    \A i, j \in 1..Len(sc_out) : sc_out[i] = sc_out[j]

=============================================================================
